---- MODULE Spec2Model ----
(***************************************************************************)
(* Model of the task utilities of the project-management front end         *)
(* (utils/taskUtils.ts): graph enrichment of a flat task list and the two  *)
(* depth-first traversals over the enriched list.                          *)
(*                                                                         *)
(* A task is a record [id, parentTaskId, dependsOn].  Object references    *)
(* held in the relation lists of enriched tasks are modelled by the id of  *)
(* the referenced object: every reference is obtained from taskMap, which  *)
(* holds one object per id.                                                *)
(***************************************************************************)
EXTENDS Integers, Sequences, FiniteSets, TLC

\* ---------------------------------------------------------------- bounds
\* longest task list handed to enrichTasksWithDependencies
MaxTasks == 3
\* task ids (and ids referenced by dependsOn / parentTaskId) are 1..MaxId
MaxId == 3
\* total number of dependsOn entries plus non-null parentTaskId in one list
MaxRefs == 3
\* depth of the call stack at which the engine throws RangeError
StackLimit == 6

\* parentTaskId: number | null; null is modelled by 0, which like null is
\* falsy in `if (task.parentTaskId)`
Null == 0

\* longest task list handed to the date utilities and the Gantt chart
MaxDatedTasks == 2
\* instants are counted in ticks; a day has TicksPerDay of them (the code
\* counts milliseconds, 1000 * 60 * 60 * 24 to the day)
TicksPerDay == 2

\* longest answer of GET /projects
MaxProjects == 2
\* longest answer of GET /projects/:id/tasks on the projects list page
MaxFetchedTasks == 1
\* most runs of the loadTasks effect of one mounted ProjectTasks page
MaxLoads == 3

Ids == 1..MaxId

VARIABLES
    tasks,          \* the Task[] fetched for the project (input list)
    enrichedTasks,  \* TaskWithDependencies[] built from tasks
    pc,             \* "loaded": tasks fetched; "enriched": enrichedTasks built
    result,         \* outcome of the last traversal call
    rootTasks,      \* buildTaskHierarchy(enrichedTasks) of the last render
    hierarchy       \* what the last render of HierarchyView counted

VARIABLES
    dateTasks,      \* a Task[] given to the date utilities and the Gantt chart
    calc            \* the value the last date utility or layout returned

VARIABLES
    projects,       \* ProjectsList: the ProjectWithMetrics[] state
    loading,        \* ProjectsList: the loading flag
    error,          \* ProjectsList: the error state, <<>> for null
    load            \* the call of loadProjects: its position and its requests

VARIABLES
    req,            \* proxy: the request given to the handler
    res,            \* proxy: the response object of the handler
    handler         \* proxy: the position of the handler and what it awaits

VARIABLES
    page,           \* ProjectTasks: the route id, the loading flag, the error state
    loads           \* ProjectTasks: the calls of loadTasks, in the order of their start

\* the state of the ProjectTasks page and its dependency view
graphVars == <<tasks, enrichedTasks, pc, result, rootTasks, hierarchy>>

\* the state of the timeline, metrics and Gantt views
dateVars == <<dateTasks, calc>>

\* the state of the ProjectsList page
listVars == <<projects, loading, error, load>>

\* the state of one invocation of the serverless proxy function
proxyVars == <<req, res, handler>>

\* the route and the loads of the ProjectTasks page (its tasks and
\* enrichedTasks states are the variables of those names)
pageVars == <<page, loads>>

vars == <<graphVars, dateVars, listVars, proxyVars, pageVars>>

\* ------------------------------------------------------------ sequences
SeqsUpTo(S, n) == UNION {[1..k -> S] : k \in 0..n}

Range(s) == {s[i] : i \in 1..Len(s)}

\* number of occurrences of v in sequence s
Count(s, v) == Cardinality({i \in 1..Len(s) : s[i] = v})

NoDuplicates(s) == \A i, j \in 1..Len(s) : s[i] = s[j] => i = j

\* ------------------------------------------------------------ input lists
\* number of relation references a task carries
RefCost(p, d) == Len(d) + (IF p = Null THEN 0 ELSE 1)

\* the tasks that carry exactly c references
TaskChoices(c) ==
    {[id |-> i, parentTaskId |-> pd[1], dependsOn |-> pd[2]] :
        i \in Ids,
        pd \in {qd \in ({Null} \cup Ids) \X SeqsUpTo(Ids, c) :
                   RefCost(qd[1], qd[2]) = c}}

RECURSIVE SumFrom(_, _)
SumFrom(cs, i) == IF i > Len(cs) THEN 0 ELSE cs[i] + SumFrom(cs, i + 1)

\* the ways to spread at most MaxRefs references over the tasks of a list of
\* at most MaxTasks tasks: one reference count per task
CostLists == {cs \in SeqsUpTo(0..MaxRefs, MaxTasks) : SumFrom(cs, 1) <= MaxRefs}

\* ------------------------------------------------------------ enrichment
\* The insertion-ordered Map<number, TaskWithDependencies> is a sequence of
\* enriched records, at most one per id, in order of first insertion.

RECURSIVE IndexFrom(_, _, _)
IndexFrom(m, k, i) ==
    IF i > Len(m) THEN 0
    ELSE IF m[i].id = k THEN i
    ELSE IndexFrom(m, k, i + 1)

\* position of key k in the map, 0 when absent (taskMap.get / tasks.find)
MapIndex(m, k) == IndexFrom(m, k, 1)

\* taskMap.set(k, v) as delete-then-insert: an existing key moves to the end
MapSetReinsert(m, v) ==
    Append(SelectSeq(m, LAMBDA e : e.id # v.id), v)

\* taskMap.set(k, v): an existing key keeps its position and gets the new
\* value; a new key is appended
MapSet(m, v) ==
    LET i == MapIndex(m, v.id) IN
    IF i = 0 THEN Append(m, v) ELSE [m EXCEPT ![i] = v]

\* { ...task, dependentTasks: [], prerequisiteTasks: [], childTasks: [] }
NewEnriched(task) ==
    [id |-> task.id, parentTaskId |-> task.parentTaskId, dependsOn |-> task.dependsOn,
     dependentTasks |-> <<>>, prerequisiteTasks |-> <<>>, childTasks |-> <<>>]

RECURSIVE InitializeMap(_, _, _)
\* first forEach: initialise all tasks in the map
InitializeMap(ts, i, m) ==
    IF i > Len(ts) THEN m
    ELSE InitializeMap(ts, i + 1, MapSet(m, NewEnriched(ts[i])))

\* body of task.dependsOn.forEach without the push onto dependentTasks
LinkPrerequisiteOneWay(m, taskId, depId) ==
    LET e == MapIndex(m, taskId)
        p == MapIndex(m, depId)
    IN  IF p = 0 THEN m
        ELSE [m EXCEPT ![e].prerequisiteTasks = Append(@, depId)]

\* body of task.dependsOn.forEach without the `if (prerequisite)` test: an
\* unresolved id still lands in prerequisiteTasks
LinkPrerequisiteUnchecked(m, taskId, depId) ==
    LET e == MapIndex(m, taskId)
        p == MapIndex(m, depId)
        m1 == [m EXCEPT ![e].prerequisiteTasks = Append(@, depId)]
    IN  IF p = 0 THEN m1
        ELSE [m1 EXCEPT ![p].dependentTasks = Append(@, taskId)]

\* body of task.dependsOn.forEach for one depId
LinkPrerequisite(m, taskId, depId) ==
    LET e == MapIndex(m, taskId)
        p == MapIndex(m, depId)
    IN  IF p = 0 THEN m
        ELSE LET m1 == [m EXCEPT ![e].prerequisiteTasks = Append(@, depId)]
             IN  [m1 EXCEPT ![p].dependentTasks = Append(@, taskId)]

RECURSIVE LinkPrerequisites(_, _, _, _)
LinkPrerequisites(m, taskId, deps, j) ==
    IF j > Len(deps) THEN m
    ELSE LinkPrerequisites(LinkPrerequisite(m, taskId, deps[j]), taskId, deps, j + 1)

\* the child link left out
LinkChildNever(m, task) == m

\* the child link with unshift in place of push
LinkChildUnshift(m, task) ==
    IF task.parentTaskId = Null THEN m
    ELSE LET p == MapIndex(m, task.parentTaskId) IN
         IF p = 0 THEN m
         ELSE [m EXCEPT ![p].childTasks = <<task.id>> \o @]

\* if (task.parentTaskId) { parent = taskMap.get(...); if (parent) push }
LinkChild(m, task) ==
    IF task.parentTaskId = Null THEN m
    ELSE LET p == MapIndex(m, task.parentTaskId) IN
         IF p = 0 THEN m
         ELSE [m EXCEPT ![p].childTasks = Append(@, task.id)]

RECURSIVE BuildRelationships(_, _, _)
\* second forEach: build relationships
BuildRelationships(ts, i, m) ==
    IF i > Len(ts) THEN m
    ELSE BuildRelationships(ts, i + 1,
            LinkChild(LinkPrerequisites(m, ts[i].id, ts[i].dependsOn, 1), ts[i]))

\* Array.from(taskMap.values())
enrichTasksWithDependencies(ts) ==
    BuildRelationships(ts, 1, InitializeMap(ts, 1, <<>>))

\* ------------------------------------------------------------ hierarchy
\* the roots as the tasks whose parent is not in the list
buildTaskHierarchyOrphans(E) ==
    LET present == {E[i].id : i \in 1..Len(E)}
        kept == SelectSeq(E, LAMBDA task : task.parentTaskId \notin present)
    IN  [k \in 1..Len(kept) |-> kept[k].id]

\* tasks.filter(task => !task.parentTaskId); the returned references are
\* given by their ids
buildTaskHierarchy(E) ==
    LET kept == SelectSeq(E, LAMBDA task : ~(task.parentTaskId # Null))
    IN  [k \in 1..Len(kept) |-> kept[k].id]

RECURSIVE countTasks(_, _, _), CountReduce(_, _, _, _, _)
\* HierarchyView.countTasks(tasks): the number counted, or threw when the
\* call stack is exhausted
countTasks(E, list, depth) ==
    IF depth > StackLimit THEN [count |-> 0, threw |-> TRUE]
    ELSE CountReduce(E, list, 1, 0, depth)

\* tasks.reduce((count, task) => count + 1 + countTasks(task.childTasks), 0)
CountReduce(E, list, j, count, depth) ==
    IF j > Len(list) THEN [count |-> count, threw |-> FALSE]
    ELSE LET sub == countTasks(E, E[MapIndex(E, list[j])].childTasks, depth + 1) IN
         IF sub.threw THEN [count |-> count, threw |-> TRUE]
         ELSE CountReduce(E, list, j + 1, count + 1 + sub.count, depth)

\* HierarchyView has not been rendered
NoHierarchy == [op |-> "none", rootCount |-> 0, totalTasks |-> 0, threw |-> FALSE]

\* ------------------------------------------------------------ traversals
\* The closure state of one traversal: the visited set, the array being
\* built, and bookkeeping of the calls made (calls: number of calls of
\* traverse; expanded: the ids whose call went on to walk relations; threw:
\* the call stack was exhausted and the call ended in RangeError).
NewTraversal ==
    [visited |-> {}, out |-> <<>>, calls |-> 0, expanded |-> <<>>, threw |-> FALSE]

RECURSIVE PrereqTraverse(_, _, _, _), PrereqForEach(_, _, _, _, _)

\* if (visited.has(currentId)) return;
PrereqSeenNever(st, currentId) == FALSE
PrereqSeen(st, currentId) == currentId \in st.visited

\* visited.add(currentId);
PrereqMarkNothing(st, currentId) == st
PrereqMark(st, currentId) == [st EXCEPT !.visited = @ \cup {currentId}]

\* path.push(task);
PrereqUnshift(st, task) ==
    [st EXCEPT !.out = <<task.id>> \o @, !.expanded = Append(@, task.id)]
PrereqPush(st, task) ==
    [st EXCEPT !.out = Append(@, task.id), !.expanded = Append(@, task.id)]

\* if (task.parentTaskId) { traverse(task.parentTaskId); }
PrereqParentSkipped(E, st, task, depth) == st
PrereqParent(E, st, task, depth) ==
    IF task.parentTaskId # Null
    THEN PrereqTraverse(E, st, task.parentTaskId, depth + 1)
    ELSE st

\* findPrerequisitePath.traverse with path.push ahead of tasks.find
PrereqTraversePushFirst(E, st, currentId, depth) ==
    IF st.threw THEN st
    ELSE IF depth > StackLimit THEN [st EXCEPT !.threw = TRUE]
    ELSE
      LET s0 == [st EXCEPT !.calls = @ + 1] IN
      IF PrereqSeen(s0, currentId) THEN s0
      ELSE
        LET s1 == PrereqPush(PrereqMark(s0, currentId), [id |-> currentId])
            i  == MapIndex(E, currentId)
        IN  IF i = 0 THEN s1
            ELSE PrereqParent(E,
                    PrereqForEach(E, s1, E[i].prerequisiteTasks, 1, depth),
                    E[i], depth)

\* findPrerequisitePath.traverse with the parent walked ahead of the
\* prerequisites
PrereqTraverseParentFirst(E, st, currentId, depth) ==
    IF st.threw THEN st
    ELSE IF depth > StackLimit THEN [st EXCEPT !.threw = TRUE]
    ELSE
      LET s0 == [st EXCEPT !.calls = @ + 1] IN
      IF PrereqSeen(s0, currentId) THEN s0
      ELSE
        LET s1 == PrereqMark(s0, currentId)
            i  == MapIndex(E, currentId)
        IN  IF i = 0 THEN s1
            ELSE PrereqForEach(E,
                    PrereqParent(E, PrereqPush(s1, E[i]), E[i], depth),
                    E[i].prerequisiteTasks, 1, depth)

\* findPrerequisitePath.traverse(currentId)
PrereqTraverse(E, st, currentId, depth) ==
    IF st.threw THEN st
    ELSE IF depth > StackLimit THEN [st EXCEPT !.threw = TRUE]
    ELSE
      LET s0 == [st EXCEPT !.calls = @ + 1] IN
      IF PrereqSeen(s0, currentId) THEN s0
      ELSE
        LET s1 == PrereqMark(s0, currentId)
            i  == MapIndex(E, currentId)
        IN  IF i = 0 THEN s1
            ELSE PrereqParent(E,
                    PrereqForEach(E, PrereqPush(s1, E[i]),
                                  E[i].prerequisiteTasks, 1, depth),
                    E[i], depth)

\* task.prerequisiteTasks?.forEach(prereq => traverse(prereq.id))
PrereqForEach(E, st, list, j, depth) ==
    IF st.threw \/ j > Len(list) THEN st
    ELSE PrereqForEach(E, PrereqTraverse(E, st, list[j], depth + 1), list, j + 1, depth)

RECURSIVE DependentTraverse(_, _, _, _), DependentForEach(_, _, _, _, _)

\* task.childTasks, the list walked by the second forEach
NoChildTasks(task) == <<>>
ChildTasks(task) == task.childTasks

\* findDependentTasks.traverse(currentId)
DependentTraverse(E, st, currentId, depth) ==
    IF st.threw THEN st
    ELSE IF depth > StackLimit THEN [st EXCEPT !.threw = TRUE]
    ELSE
      LET s0 == [st EXCEPT !.calls = @ + 1]
          i  == MapIndex(E, currentId)
      IN  IF i = 0 \/ currentId \in s0.visited THEN s0
          ELSE
            LET s1 == [s0 EXCEPT !.visited = @ \cup {currentId},
                                 !.expanded = Append(@, currentId)]
                s2 == DependentForEach(E, s1, E[i].dependentTasks, 1, depth)
            IN  DependentForEach(E, s2, ChildTasks(E[i]), 1, depth)

\* list.forEach(t => { dependents.push(t); traverse(t.id); })
DependentForEach(E, st, list, j, depth) ==
    IF st.threw \/ j > Len(list) THEN st
    ELSE DependentForEach(E,
            DependentTraverse(E, [st EXCEPT !.out = Append(@, list[j])], list[j], depth + 1),
            list, j + 1, depth)

findPrerequisitePath(taskId, E) == PrereqTraverse(E, NewTraversal, taskId, 1)

findDependentTasks(taskId, E) == DependentTraverse(E, NewTraversal, taskId, 1)

\* no traversal has been called
NoResult == [op |-> "none", taskId |-> Null, run |-> NewTraversal]

\* ------------------------------------------------------------ dates
\* A date string "YYYY-MM-DD" is the tuple <<year, month, day>> of its three
\* fixed-width fields; a null date is the empty tuple.  A nullable number is
\* <<>> for null and <<n>> for n.
NoDate == <<>>
NoNumber == <<>>

DateStrings ==
    {<<2024, 2, 28>>, <<2024, 3, 1>>, <<2024, 3, 5>>, <<2024, 3, 10>>, <<2024, 3, 15>>,
     <<2024, 3, 20>>}

\* a < b on two date strings of the fixed-width form: character by character,
\* which is field by field
StringLess(a, b) ==
    \/ a[1] < b[1]
    \/ a[1] = b[1] /\ a[2] < b[2]
    \/ a[1] = b[1] /\ a[2] = b[2] /\ a[3] < b[3]

\* days from 1970-01-01 to the civil date y-m-d (proleptic Gregorian)
DaysFromCivil(y, m, d) ==
    LET yy  == IF m <= 2 THEN y - 1 ELSE y
        era == yy \div 400
        yoe == yy - era * 400
        mp  == IF m > 2 THEN m - 3 ELSE m + 9
        doy == (153 * mp + 2) \div 5 + d - 1
        doe == yoe * 365 + yoe \div 4 - yoe \div 100 + doy
    IN  era * 146097 + doe - 719468

\* the civil date <<y, m, d>> of the day z days after 1970-01-01
CivilFromDays(z) ==
    LET zz  == z + 719468
        era == zz \div 146097
        doe == zz - era * 146097
        yoe == (doe - doe \div 1460 + doe \div 36524 - doe \div 146096) \div 365
        doy == doe - (365 * yoe + yoe \div 4 - yoe \div 100)
        mp  == (5 * doy + 2) \div 153
        d   == doy - (153 * mp + 2) \div 5 + 1
        m   == IF mp < 10 THEN mp + 3 ELSE mp - 9
        y   == yoe + era * 400
    IN  <<IF m <= 2 THEN y + 1 ELSE y, m, d>>

\* new Date(s).getTime(): a date-only string is midnight UTC of that day;
\* new Date(null) is the epoch
GetTime(s) ==
    IF s = NoDate THEN 0 ELSE DaysFromCivil(s[1], s[2], s[3]) * TicksPerDay

\* date.toISOString().split('T')[0]
ToISODate(t) == CivilFromDays(t \div TicksPerDay)

\* Math.ceil(a / b) for b > 0
MathCeilDiv(a, b) == -((-a) \div b)

\* Math.floor(a / b) for b > 0
MathFloorDiv(a, b) == a \div b

\* ------------------------------------------------------------ project metrics
\* durationDays: 0 in place of null
EmptyMetricsZeroDuration(project) ==
    [id |-> project.id, name |-> project.name, taskCount |-> 0,
     earliestStartDate |-> NoDate, latestEndDate |-> NoDate, durationDays |-> <<0>>]

\* { ...project, taskCount: 0, earliestStartDate: null, latestEndDate: null,
\*   durationDays: null }
EmptyMetrics(project) ==
    [id |-> project.id, name |-> project.name, taskCount |-> 0,
     earliestStartDate |-> NoDate, latestEndDate |-> NoDate, durationDays |-> NoNumber]

\* the reduce callback with the comparison turned round
EarlierOfLater(min, date) == IF StringLess(min, date) THEN date ELSE min
\* (min, date) => (date < min ? date : min)
EarlierOf(min, date) == IF StringLess(date, min) THEN date ELSE min

\* (max, date) => (date > max ? date : max)
LaterOf(max, date) == IF StringLess(max, date) THEN date ELSE max

RECURSIVE ReduceEarliest(_, _, _)
\* startDates.reduce(...) without an initial value: starts from the first
ReduceEarliest(ds, i, acc) ==
    IF i > Len(ds) THEN acc ELSE ReduceEarliest(ds, i + 1, EarlierOf(acc, ds[i]))

RECURSIVE ReduceLatest(_, _, _)
ReduceLatest(ds, i, acc) ==
    IF i > Len(ds) THEN acc ELSE ReduceLatest(ds, i + 1, LaterOf(acc, ds[i]))

\* tasks.map(t => t.startDate).filter(date => date !== null)
StartDatesOf(ts) ==
    SelectSeq([i \in 1..Len(ts) |-> ts[i].startDate], LAMBDA d : d # NoDate)

\* tasks.map(t => t.dueDate).filter(date => date !== null)
EndDatesOf(ts) ==
    SelectSeq([i \in 1..Len(ts) |-> ts[i].dueDate], LAMBDA d : d # NoDate)

computeProjectMetrics(project, ts) ==
    IF Len(ts) = 0 THEN EmptyMetrics(project)
    ELSE
      LET startDates == StartDatesOf(ts)
          earliestStartDate ==
              IF Len(startDates) > 0
              THEN ReduceEarliest(startDates, 2, startDates[1]) ELSE NoDate
          endDates == EndDatesOf(ts)
          latestEndDate ==
              IF Len(endDates) > 0
              THEN ReduceLatest(endDates, 2, endDates[1]) ELSE NoDate
          durationDays ==
              IF earliestStartDate # NoDate /\ latestEndDate # NoDate
              THEN <<MathCeilDiv(GetTime(latestEndDate) - GetTime(earliestStartDate),
                                 TicksPerDay)>>
              ELSE NoNumber
      IN  [id |-> project.id, name |-> project.name, taskCount |-> Len(ts),
           earliestStartDate |-> earliestStartDate, latestEndDate |-> latestEndDate,
           durationDays |-> durationDays]

\* ------------------------------------------------------------ date range filter
\* task.startDate ? new Date(task.startDate) : null, as a nullable instant
TaskStartOf(task) == IF task.startDate # NoDate THEN <<GetTime(task.startDate)>> ELSE NoNumber

\* task.dueDate ? new Date(task.dueDate) : null
TaskEndOf(task) == IF task.dueDate # NoDate THEN <<GetTime(task.dueDate)>> ELSE NoNumber

\* taskStart && taskStart >= startDate && taskStart <= endDate
StartsWithin(taskStart, startDate, endDate) ==
    taskStart # NoNumber /\ taskStart[1] >= startDate /\ taskStart[1] <= endDate

\* the filter without its second test
EndsWithinNever(taskEnd, startDate, endDate) == FALSE
\* taskEnd && taskEnd >= startDate && taskEnd <= endDate
EndsWithin(taskEnd, startDate, endDate) ==
    taskEnd # NoNumber /\ taskEnd[1] >= startDate /\ taskEnd[1] <= endDate

\* the filter without its third test
SpansNever(taskStart, taskEnd, startDate, endDate) == FALSE
\* taskStart && taskEnd && taskStart <= startDate && taskEnd >= endDate
Spans(taskStart, taskEnd, startDate, endDate) ==
    /\ taskStart # NoNumber
    /\ taskEnd # NoNumber
    /\ taskStart[1] <= startDate
    /\ taskEnd[1] >= endDate

\* the filter callback
InDateRange(task, startDate, endDate) ==
    IF task.startDate = NoDate /\ task.dueDate = NoDate THEN FALSE
    ELSE LET taskStart == TaskStartOf(task)
             taskEnd == TaskEndOf(task)
         IN  IF StartsWithin(taskStart, startDate, endDate) THEN TRUE
             ELSE IF EndsWithin(taskEnd, startDate, endDate) THEN TRUE
             ELSE IF Spans(taskStart, taskEnd, startDate, endDate) THEN TRUE
             ELSE FALSE

\* tasks.filter(...); the returned tasks are given by their ids
filterTasksByDateRange(ts, startDate, endDate) ==
    LET kept == SelectSeq(ts, LAMBDA task : InDateRange(task, startDate, endDate))
    IN  [k \in 1..Len(kept) |-> kept[k].id]

\* the instants used as range ends: any tick of two of the days
RangeInstants ==
    {GetTime(d) + o : d \in {<<2024, 3, 5>>, <<2024, 3, 15>>}, o \in 0..(TicksPerDay - 1)}

\* ------------------------------------------------------------ grouping by date
\* the key date with the two operands of || exchanged
GroupDateDueFirst(task) == IF task.dueDate # NoDate THEN task.dueDate ELSE task.startDate
\* task.startDate || task.dueDate
GroupDate(task) == IF task.startDate # NoDate THEN task.startDate ELSE task.dueDate

RECURSIVE GroupIndexFrom(_, _, _)
GroupIndexFrom(grouped, dateKey, i) ==
    IF i > Len(grouped) THEN 0
    ELSE IF grouped[i].key = dateKey THEN i
    ELSE GroupIndexFrom(grouped, dateKey, i + 1)

\* if (!grouped.has(dateKey)) grouped.set(dateKey, []);
\* grouped.get(dateKey).push(task)
GroupPush(grouped, dateKey, task) ==
    LET i == GroupIndexFrom(grouped, dateKey, 1) IN
    IF i = 0 THEN Append(grouped, [key |-> dateKey, tasks |-> <<task.id>>])
    ELSE [grouped EXCEPT ![i].tasks = Append(@, task.id)]

RECURSIVE GroupEach(_, _, _)
\* tasks.forEach(task => { ... })
GroupEach(ts, i, grouped) ==
    IF i > Len(ts) THEN grouped
    ELSE LET date == GroupDate(ts[i]) IN
         IF date = NoDate THEN GroupEach(ts, i + 1, grouped)
         ELSE GroupEach(ts, i + 1, GroupPush(grouped, ToISODate(GetTime(date)), ts[i]))

\* the Map<string, Task[]> as the sequence of its entries in insertion
\* order; the tasks of a bucket are given by their ids
groupTasksByDate(ts) == GroupEach(ts, 1, <<>>)

\* ------------------------------------------------------------ Gantt layout
\* A JavaScript number that results from a division is a record: kind
\* "finite" with the fraction num/den in lowest terms (den > 0), or kind
\* "+Infinity", "-Infinity" or "NaN".
RECURSIVE Gcd(_, _)
Gcd(a, b) == IF b = 0 THEN a ELSE Gcd(b, a % b)

Abs(a) == IF a < 0 THEN -a ELSE a

Fraction(n, d) ==
    LET g == Gcd(Abs(n), Abs(d))
        sgn == IF d < 0 THEN -1 ELSE 1
    IN  [kind |-> "finite", num |-> (sgn * n) \div g, den |-> (sgn * d) \div g]

NotFinite(k) == [kind |-> k, num |-> 0, den |-> 0]

One == Fraction(1, 1)

\* a / b on two integers
Divide(a, b) ==
    IF b # 0 THEN Fraction(a, b)
    ELSE IF a > 0 THEN NotFinite("+Infinity")
    ELSE IF a < 0 THEN NotFinite("-Infinity")
    ELSE NotFinite("NaN")

\* v * 100
TimesHundred(v) ==
    IF v.kind = "finite" THEN Fraction(v.num * 100, v.den) ELSE v

\* Math.max(v, w) for a finite w
MathMax(v, w) ==
    IF v.kind = "NaN" \/ v.kind = "+Infinity" THEN v
    ELSE IF v.kind = "-Infinity" THEN w
    ELSE IF v.num * w.den >= w.num * v.den THEN v ELSE w

\* const paddingDays = 2
PaddingDays == 2

\* the filter with || in place of &&
ValidTaskEither(t) == t.startDate # NoDate \/ t.dueDate # NoDate
\* t => t.startDate && t.dueDate
ValidTask(t) == t.startDate # NoDate /\ t.dueDate # NoDate

RECURSIVE MinStart(_, _, _)
\* Math.min(...dates.map(d => d.start.getTime()))
MinStart(ts, i, acc) ==
    IF i > Len(ts) THEN acc
    ELSE LET t == GetTime(ts[i].startDate) IN
         MinStart(ts, i + 1, IF t < acc THEN t ELSE acc)

RECURSIVE MaxEnd(_, _, _)
\* Math.max(...dates.map(d => d.end.getTime()))
MaxEnd(ts, i, acc) ==
    IF i > Len(ts) THEN acc
    ELSE LET t == GetTime(ts[i].dueDate) IN
         MaxEnd(ts, i + 1, IF t > acc THEN t ELSE acc)

\* date.setDate(date.getDate() + days), in a zone without clock changes
AddDays(t, days) == t + days * TicksPerDay

\* the callback of validTasks.map: one positioned task
TaskPosition(task, minDate, totalMs) ==
    LET startOffset == GetTime(task.startDate) - minDate
        taskDuration == GetTime(task.dueDate) - GetTime(task.startDate)
    IN  [task |-> task.id,
         leftPercent |-> TimesHundred(Divide(startOffset, totalMs)),
         widthPercent |-> TimesHundred(Divide(taskDuration, totalMs))]

\* the first useMemo of GanttChart; divisions counts the divisions by
\* totalMs that were evaluated
GanttLayout(ts) ==
    LET validTasks == SelectSeq(ts, ValidTask) IN
    IF Len(validTasks) = 0
    THEN [startDate |-> NoNumber, endDate |-> NoNumber, totalDays |-> 0,
          tasksWithPositions |-> <<>>, divisions |-> 0]
    ELSE
      LET minDate == AddDays(MinStart(validTasks, 2, GetTime(validTasks[1].startDate)),
                             -PaddingDays)
          maxDate == AddDays(MaxEnd(validTasks, 2, GetTime(validTasks[1].dueDate)),
                             PaddingDays)
          totalMs == maxDate - minDate
      IN  [startDate |-> <<minDate>>, endDate |-> <<maxDate>>,
           totalDays |-> MathCeilDiv(totalMs, TicksPerDay),
           tasksWithPositions |->
               [k \in 1..Len(validTasks) |-> TaskPosition(validTasks[k], minDate, totalMs)],
           divisions |-> 2 * Len(validTasks)]

RECURSIVE MarkersFrom(_, _, _, _)
\* while (currentDate <= endDate) { markers.push(...); currentDate.setDate(+interval) }
MarkersFrom(currentDate, startDate, endDate, markerInterval) ==
    IF currentDate <= endDate
    THEN <<[date |-> currentDate,
            position |-> TimesHundred(Divide(currentDate - startDate, endDate - startDate))]>>
         \o MarkersFrom(AddDays(currentDate, markerInterval), startDate, endDate,
                        markerInterval)
    ELSE <<>>

\* the second useMemo of GanttChart
DateMarkers(layout) ==
    IF layout.startDate = NoNumber \/ layout.endDate = NoNumber \/ layout.totalDays = 0
    THEN <<>>
    ELSE LET floored == MathFloorDiv(layout.totalDays, 10)
             markerInterval == IF floored > 1 THEN floored ELSE 1
         IN  MarkersFrom(layout.startDate[1], layout.startDate[1], layout.endDate[1],
                         markerInterval)

\* the bar width without the floor of 1
RenderedWidthRaw(widthPercent) == widthPercent
\* width: `${Math.max(widthPercent, 1)}%`
RenderedWidth(widthPercent) == MathMax(widthPercent, One)

\* the style of the task bars
TaskBars(layout) ==
    [k \in 1..Len(layout.tasksWithPositions) |->
        [task |-> layout.tasksWithPositions[k].task,
         left |-> layout.tasksWithPositions[k].leftPercent,
         width |-> RenderedWidth(layout.tasksWithPositions[k].widthPercent)]]

\* ------------------------------------------------------------ upcoming tasks and timeline
\* the default value of the parameter days
UpcomingDays == 14

\* the page without the selection: every task is handed to the timeline
getUpcomingTasksUnfiltered(ts, now, days) == ts
\* getUpcomingTasks(tasks, days) called at the instant now: endDate is now
\* moved forward by days calendar days, and the tasks kept by
\* filterTasksByDateRange(tasks, now, endDate) are returned as records
getUpcomingTasks(ts, now, days) ==
    LET endDate == AddDays(now, days)
    IN  SelectSeq(ts, LAMBDA task : InDateRange(task, now, endDate))

\* a < b for two 'YYYY-MM-DD' strings in the order of Array.prototype.sort
DateKeyLess(a, b) ==
    \/ a[1] < b[1]
    \/ a[1] = b[1] /\ a[2] < b[2]
    \/ a[1] = b[1] /\ a[2] = b[2] /\ a[3] < b[3]

RECURSIVE SortDateKeys(_)
\* Array.from(keys).sort(): the keys are distinct, the least one comes first
SortDateKeys(keys) ==
    IF keys = {} THEN <<>>
    ELSE LET least == CHOOSE k \in keys : \A other \in keys \ {k} : DateKeyLess(k, other)
         IN  <<least>> \o SortDateKeys(keys \ {least})

\* Array.from(groupedTasks.keys()).sort()
SortedDates(groupedTasks) ==
    SortDateKeys({groupedTasks[b].key : b \in 1..Len(groupedTasks)})

\* ------------------------------------------------------------ proxy: state
\* no request has been received
NoRequest == [method |-> "", body |-> FALSE, authorization |-> FALSE]

\* a response object on which nothing has been set: headers holds the names
\* of the headers set, body what was written ("none": nothing yet, "end":
\* an empty body, "data": the proxied data, "error": the error object)
NewResponse == [headers |-> {}, statusCode |-> 200, body |-> "none", sent |-> FALSE]

\* the handler is not running
NoHandler ==
    [pc |-> "none",
     requestOptions |-> [method |-> "", headers |-> {}, body |-> FALSE],
     response |-> [status |-> 0, text |-> ""]]

ProxyIdle ==
    /\ req = NoRequest
    /\ res = NewResponse
    /\ handler = NoHandler

\* ------------------------------------------------------------ ProjectTasks page: state
\* the page before its first render with a route id: useState(true) for
\* loading, useState(null) for error
NoPage == [id |-> Null, loading |-> TRUE, error |-> <<>>]

PageIdle ==
    /\ page = NoPage
    /\ loads = <<>>

\* ------------------------------------------------------------ projects list: state
\* useState<string | null>(null)
NoError == <<>>

\* loadProjects has not been called.  projectsData is the answer of
\* getProjects (listed: it has arrived); per listed project, outcome is
\* "pending", "fulfilled" or "rejected" for its getProjectTasks request,
\* fetched the tasks it answered, settled the value its callback returned
\* (<<>> before, <<value>> after); completed lists the projects in the order
\* in which their requests finished.
NoLoad ==
    [pc |-> "none", listed |-> FALSE, projectsData |-> <<>>, outcome |-> <<>>,
     fetched |-> <<>>, settled |-> <<>>, completed |-> <<>>]

ListIdle ==
    /\ projects = <<>>
    /\ loading = TRUE
    /\ error = NoError
    /\ load = NoLoad

\* ------------------------------------------------------------ date views: state machine
\* the task with id i and the given dates (the fields the date utilities read)
DatedTaskChoices(i) ==
    {[id |-> i, startDate |-> sd, dueDate |-> dd] :
        sd \in DateStrings \cup {NoDate}, dd \in DateStrings \cup {NoDate}}

RECURSIVE DateTasksAre(_, _, _)
\* dateTasks is acc followed by tasks with ids i..n
DateTasksAre(n, i, acc) ==
    IF i > n THEN dateTasks = acc
    ELSE \E t \in DatedTaskChoices(i) : DateTasksAre(n, i + 1, Append(acc, t))

ProjectChoices == {[id |-> 1, name |-> "alpha"], [id |-> 2, name |-> "beta"]}

NoCalc == [op |-> "none"]

\* the date views are not in use
DateIdle ==
    /\ dateTasks = <<>>
    /\ calc = NoCalc

GraphIdle ==
    /\ tasks = <<>>
    /\ enrichedTasks = <<>>
    /\ pc = "idle"
    /\ result = NoResult
    /\ rootTasks = <<>>
    /\ hierarchy = NoHierarchy

DateInit ==
    /\ \E n \in 0..MaxDatedTasks : DateTasksAre(n, 1, <<>>)
    /\ calc = NoCalc
    /\ GraphIdle
    /\ ListIdle
    /\ ProxyIdle
    /\ PageIdle

\* The date utilities and the chart layout are pure functions of the task
\* list: a behaviour is one call on dateTasks, taken while calc holds no value.

\* a call computeProjectMetrics(project, dateTasks)
ComputeProjectMetrics(project) ==
    /\ calc = NoCalc
    /\ calc' = [op |-> "computeProjectMetrics", project |-> project,
                value |-> computeProjectMetrics(project, dateTasks)]
    /\ UNCHANGED dateTasks
    /\ UNCHANGED graphVars
    /\ UNCHANGED listVars
    /\ UNCHANGED proxyVars
    /\ UNCHANGED pageVars

\* a call filterTasksByDateRange(dateTasks, startDate, endDate)
FilterTasksByDateRange(startDate, endDate) ==
    /\ calc = NoCalc
    /\ calc' = [op |-> "filterTasksByDateRange", startDate |-> startDate,
                endDate |-> endDate,
                value |-> filterTasksByDateRange(dateTasks, startDate, endDate)]
    /\ UNCHANGED dateTasks
    /\ UNCHANGED graphVars
    /\ UNCHANGED listVars
    /\ UNCHANGED proxyVars
    /\ UNCHANGED pageVars

\* a call groupTasksByDate(dateTasks)
GroupTasksByDate ==
    /\ calc = NoCalc
    /\ calc' = [op |-> "groupTasksByDate", value |-> groupTasksByDate(dateTasks)]
    /\ UNCHANGED dateTasks
    /\ UNCHANGED graphVars
    /\ UNCHANGED listVars
    /\ UNCHANGED proxyVars
    /\ UNCHANGED pageVars

\* a render of GanttChart with dateTasks
GanttChart ==
    /\ calc = NoCalc
    /\ calc' = LET layout == GanttLayout(dateTasks) IN
               [op |-> "GanttChart", layout |-> layout,
                dateMarkers |-> DateMarkers(layout), bars |-> TaskBars(layout)]
    /\ UNCHANGED dateTasks
    /\ UNCHANGED graphVars
    /\ UNCHANGED listVars
    /\ UNCHANGED proxyVars
    /\ UNCHANGED pageVars

DateNext ==
    \/ \E project \in ProjectChoices : ComputeProjectMetrics(project)
    \/ GanttChart
    \/ GroupTasksByDate
    \/ \E startDate, endDate \in RangeInstants :
          FilterTasksByDateRange(startDate, endDate)

DateSpec == DateInit /\ [][DateNext]_vars

\* ------------------------------------------------------------ projects list: state machine
\* the projects the server may list
ListedProjects ==
    {[id |-> 1, name |-> "alpha"], [id |-> 2, name |-> "beta"], [id |-> 3, name |-> "gamma"]}

\* the answers of GET /projects: lists of distinct projects
ProjectLists == {ps \in SeqsUpTo(ListedProjects, MaxProjects) : NoDuplicates(ps)}

\* the answers of GET /projects/:id/tasks: each task starts on March 5 or has
\* no start date, and is due on March 15 or has no due date
FetchedTaskLists ==
    SeqsUpTo({[id |-> 1, startDate |-> sd, dueDate |-> dd] :
                 sd \in {<<2024, 3, 5>>, NoDate}, dd \in {<<2024, 3, 15>>, NoDate}},
             MaxFetchedTasks)

\* the messages of the errors fetchApi throws
ErrorMessages == {"API Error: Internal Server Error", "Network error: Failed to fetch"}

\* the page is mounted: the states are initial and the effect is about to run
ListInit ==
    /\ projects = <<>>
    /\ loading = TRUE
    /\ error = NoError
    /\ load = [NoLoad EXCEPT !.pc = "mounted"]
    /\ GraphIdle
    /\ DateIdle
    /\ ProxyIdle
    /\ PageIdle

\* loadProjects(): setLoading(true) and the request of the project list
LoadProjects ==
    /\ load.pc = "mounted"
    /\ loading' = TRUE
    /\ load' = [load EXCEPT !.pc = "getProjects"]
    /\ UNCHANGED <<projects, error>>
    /\ UNCHANGED <<graphVars, dateVars>>
    /\ UNCHANGED proxyVars
    /\ UNCHANGED pageVars

\* getProjects() resolves: map starts one getProjectTasks request per project
GetProjectsResolves(projectsData) ==
    /\ load.pc = "getProjects"
    /\ load' = [load EXCEPT !.pc = "getProjectTasks",
                            !.listed = TRUE,
                            !.projectsData = projectsData,
                            !.outcome = [k \in 1..Len(projectsData) |-> "pending"],
                            !.fetched = [k \in 1..Len(projectsData) |-> <<>>],
                            !.settled = [k \in 1..Len(projectsData) |-> <<>>]]
    /\ UNCHANGED <<projects, loading, error>>
    /\ UNCHANGED <<graphVars, dateVars>>
    /\ UNCHANGED proxyVars
    /\ UNCHANGED pageVars

\* getProjects() rejects: the outer catch and finally
GetProjectsRejects(message) ==
    /\ load.pc = "getProjects"
    /\ error' = <<message>>
    /\ loading' = FALSE
    /\ load' = [load EXCEPT !.pc = "done"]
    /\ UNCHANGED projects
    /\ UNCHANGED <<graphVars, dateVars>>
    /\ UNCHANGED proxyVars
    /\ UNCHANGED pageVars

\* getProjectTasks(project.id) of the k-th project resolves with ts
GetProjectTasksResolves(k, ts) ==
    /\ load.pc = "getProjectTasks"
    /\ k \in 1..Len(load.projectsData)
    /\ load.outcome[k] = "pending"
    /\ load' = [load EXCEPT
                  !.outcome[k] = "fulfilled",
                  !.fetched[k] = ts,
                  !.settled[k] = <<computeProjectMetrics(load.projectsData[k], ts)>>,
                  !.completed = Append(@, k)]
    /\ UNCHANGED <<projects, loading, error>>
    /\ UNCHANGED <<graphVars, dateVars>>
    /\ UNCHANGED proxyVars
    /\ UNCHANGED pageVars

\* getProjectTasks(project.id) of the k-th project rejects: the inner catch
GetProjectTasksRejects(k) ==
    /\ load.pc = "getProjectTasks"
    /\ k \in 1..Len(load.projectsData)
    /\ load.outcome[k] = "pending"
    /\ load' = [load EXCEPT
                  !.outcome[k] = "rejected",
                  !.settled[k] = <<computeProjectMetrics(load.projectsData[k], <<>>)>>,
                  !.completed = Append(@, k)]
    /\ UNCHANGED <<projects, loading, error>>
    /\ UNCHANGED <<graphVars, dateVars>>
    /\ UNCHANGED proxyVars
    /\ UNCHANGED pageVars

\* an array of the values in the order in which the promises settled
PromiseAllCompletionOrder(settled, completed) ==
    [k \in 1..Len(completed) |-> settled[completed[k]][1]]
\* Promise.all: the array of the values, in the order of the promises
PromiseAll(settled, completed) == [k \in 1..Len(settled) |-> settled[k][1]]

\* every callback has returned: Promise.all resolves, setProjects, finally
PromiseAllResolves ==
    /\ load.pc = "getProjectTasks"
    /\ \A k \in 1..Len(load.projectsData) : load.outcome[k] # "pending"
    /\ projects' = PromiseAll(load.settled, load.completed)
    /\ loading' = FALSE
    /\ load' = [load EXCEPT !.pc = "done"]
    /\ UNCHANGED error
    /\ UNCHANGED <<graphVars, dateVars>>
    /\ UNCHANGED proxyVars
    /\ UNCHANGED pageVars

ListNext ==
    \/ LoadProjects
    \/ \E projectsData \in ProjectLists : GetProjectsResolves(projectsData)
    \/ \E message \in ErrorMessages : GetProjectsRejects(message)
    \/ \E k \in 1..MaxProjects, ts \in FetchedTaskLists : GetProjectTasksResolves(k, ts)
    \/ \E k \in 1..MaxProjects : GetProjectTasksRejects(k)
    \/ PromiseAllResolves

ListSpec == ListInit /\ [][ListNext]_vars

\* ------------------------------------------------------------ timeline: state machine
\* the instants at which the page is rendered: any tick of two of the days
Nows ==
    {GetTime(d) + o : d \in {<<2024, 3, 2>>, <<2024, 3, 5>>}, o \in 0..(TicksPerDay - 1)}

\* a render of the page in timeline mode at the instant now: the upcoming
\* tasks of dateTasks are handed to TimelineView, which groups them by date
\* and shows one block per key of sortedDates
TimelineView(now) ==
    /\ calc = NoCalc
    /\ calc' = LET upcomingTasks == getUpcomingTasks(dateTasks, now, UpcomingDays)
                   groupedTasks == groupTasksByDate(upcomingTasks)
               IN  [op |-> "TimelineView", now |-> now,
                    upcomingTasks |-> [k \in 1..Len(upcomingTasks) |-> upcomingTasks[k].id],
                    groupedTasks |-> groupedTasks,
                    sortedDates |-> SortedDates(groupedTasks)]
    /\ UNCHANGED dateTasks
    /\ UNCHANGED graphVars
    /\ UNCHANGED listVars
    /\ UNCHANGED proxyVars
    /\ UNCHANGED pageVars

TimelineNext == \E now \in Nows : TimelineView(now)

TimelineSpec == DateInit /\ [][TimelineNext]_vars

\* ------------------------------------------------------------ proxy: state machine
\* the request methods that reach the function
Methods == {"GET", "POST", "PUT", "DELETE", "PATCH", "OPTIONS", "HEAD"}

\* the requests: a method, whether a body was parsed, whether an
\* authorization header came with it
Requests == [method : Methods, body : BOOLEAN, authorization : BOOLEAN]

\* the bodies the upstream may answer with: empty, JSON, not JSON
ResponseTexts == {"", "[]", "<html>"}

\* what the upstream may answer
Responses == [status : {200, 204, 404, 500}, text : ResponseTexts]

\* the function is invoked with a request and a fresh response object
ProxyInit ==
    /\ req \in Requests
    /\ res = NewResponse
    /\ handler = [NoHandler EXCEPT !.pc = "start"]
    /\ GraphIdle
    /\ DateIdle
    /\ ListIdle
    /\ PageIdle

\* headers and requestOptions of the forwarded request
RequestOptions(r) ==
    [method |-> r.method,
     headers |-> {"Content-Type", "ngrok-skip-browser-warning"}
                    \cup (IF r.authorization THEN {"authorization"} ELSE {}),
     body |-> r.body /\ r.method \in {"POST", "PUT", "PATCH"}]

\* the four res.setHeader calls
SetCorsHeaders(r) ==
    [r EXCEPT !.headers = @ \cup {"Access-Control-Allow-Origin",
                                  "Access-Control-Allow-Methods",
                                  "Access-Control-Allow-Headers",
                                  "Access-Control-Max-Age"}]

\* res.status(code).end()
StatusEnd(r, code) == [r EXCEPT !.statusCode = code, !.body = "end", !.sent = TRUE]

\* res.status(code).json(value), value being "data" or "error"
StatusJson(r, code, value) ==
    [r EXCEPT !.statusCode = code, !.body = value, !.sent = TRUE,
              !.headers = @ \cup {"Content-Type"}]

\* from the CORS headers to the return of the try block
Respond(r, request, response) ==
    IF request.method = "OPTIONS"
    THEN StatusEnd(SetCorsHeaders(r), 200)
    ELSE StatusJson(SetCorsHeaders(r), response.status, "data")

\* the catch block
RespondError(r) == StatusJson(r, 500, "error")

\* the handler up to await fetch(targetUrl, requestOptions)
Forward ==
    /\ handler.pc = "start"
    /\ handler' = [handler EXCEPT !.pc = "fetch", !.requestOptions = RequestOptions(req)]
    /\ UNCHANGED <<req, res>>
    /\ UNCHANGED <<graphVars, dateVars, listVars>>
    /\ UNCHANGED pageVars

\* fetch resolves: a 204 is answered at once, any other status awaits
\* response.text()
FetchResolves(response) ==
    /\ handler.pc = "fetch"
    /\ IF response.status # 204
       THEN /\ handler' = [handler EXCEPT !.pc = "text", !.response = response]
            /\ UNCHANGED res
       ELSE /\ handler' = [handler EXCEPT !.pc = "done", !.response = response]
            /\ res' = Respond(res, req, response)
    /\ UNCHANGED req
    /\ UNCHANGED <<graphVars, dateVars, listVars>>
    /\ UNCHANGED pageVars

\* fetch rejects: the catch block
FetchRejects ==
    /\ handler.pc = "fetch"
    /\ handler' = [handler EXCEPT !.pc = "done"]
    /\ res' = RespondError(res)
    /\ UNCHANGED req
    /\ UNCHANGED <<graphVars, dateVars, listVars>>
    /\ UNCHANGED pageVars

\* response.text() resolves: the data is parsed and the answer sent
TextResolves ==
    /\ handler.pc = "text"
    /\ handler' = [handler EXCEPT !.pc = "done"]
    /\ res' = Respond(res, req, handler.response)
    /\ UNCHANGED req
    /\ UNCHANGED <<graphVars, dateVars, listVars>>
    /\ UNCHANGED pageVars

\* response.text() rejects (the body stream fails): the catch block
TextRejects ==
    /\ handler.pc = "text"
    /\ handler' = [handler EXCEPT !.pc = "done"]
    /\ res' = RespondError(res)
    /\ UNCHANGED req
    /\ UNCHANGED <<graphVars, dateVars, listVars>>
    /\ UNCHANGED pageVars

ProxyNext ==
    \/ Forward
    \/ \E response \in Responses : FetchResolves(response)
    \/ FetchRejects
    \/ TextResolves
    \/ TextRejects

ProxySpec == ProxyInit /\ [][ProxyNext]_vars

\* ------------------------------------------------------------ ProjectTasks page: state machine
\* the project ids a route /projects/:id may carry
RouteIds == {p.id : p \in ListedProjects}

\* what GET /projects/:id/tasks answers for project p: a task and a second
\* task that depends on it, with ids that tell the projects apart
ServerTasks(p) ==
    <<[id |-> p, parentTaskId |-> Null, dependsOn |-> <<>>],
      [id |-> (p % MaxId) + 1, parentTaskId |-> Null, dependsOn |-> <<p>>]>>

\* the page is mounted and has not rendered with a route id yet
PageInit ==
    /\ PageIdle
    /\ GraphIdle
    /\ DateIdle
    /\ ListIdle
    /\ ProxyIdle

\* a render with a new route id: the effect runs loadTasks, which calls
\* setLoading(true) and requests the tasks of that project.  racing tells
\* whether an earlier request was still in flight at that moment.
Navigate(id) ==
    /\ id # page.id
    /\ Len(loads) < MaxLoads
    /\ page' = [page EXCEPT !.id = id, !.loading = TRUE]
    /\ loads' = Append(loads,
                  [id |-> id, pc |-> "await",
                   racing |-> \E k \in 1..Len(loads) : loads[k].pc = "await"])
    /\ UNCHANGED graphVars
    /\ UNCHANGED <<dateVars, listVars, proxyVars>>

\* the request of the k-th load resolves: setTasks, setEnrichedTasks,
\* finally setLoading(false), and the render that follows
LoadTasksResolves(k) ==
    /\ k \in 1..Len(loads)
    /\ loads[k].pc = "await"
    /\ tasks' = ServerTasks(loads[k].id)
    /\ enrichedTasks' = enrichTasksWithDependencies(tasks')
    /\ page' = [page EXCEPT !.loading = FALSE]
    /\ rootTasks' = IF page'.error = <<>>
                    THEN buildTaskHierarchy(enrichedTasks') ELSE rootTasks
    /\ loads' = [loads EXCEPT ![k].pc = "fulfilled"]
    /\ UNCHANGED <<pc, result, hierarchy>>
    /\ UNCHANGED <<dateVars, listVars, proxyVars>>

\* the request of the k-th load rejects: setError, finally setLoading(false)
LoadTasksRejects(k, message) ==
    /\ k \in 1..Len(loads)
    /\ loads[k].pc = "await"
    /\ page' = [page EXCEPT !.loading = FALSE, !.error = <<message>>]
    /\ loads' = [loads EXCEPT ![k].pc = "rejected"]
    /\ UNCHANGED graphVars
    /\ UNCHANGED <<dateVars, listVars, proxyVars>>

PageNext ==
    \/ \E id \in RouteIds : Navigate(id)
    \/ \E k \in 1..MaxLoads : LoadTasksResolves(k)
    \/ \E k \in 1..MaxLoads, message \in ErrorMessages : LoadTasksRejects(k, message)

PageSpec == PageInit /\ [][PageNext]_vars

\* ------------------------------------------------------------ state machine
RECURSIVE TasksAre(_, _, _)
\* tasks is acc followed by one task of cs[j] references for each j >= i
TasksAre(cs, i, acc) ==
    IF i > Len(cs) THEN tasks = acc
    ELSE \E t \in TaskChoices(cs[i]) : TasksAre(cs, i + 1, Append(acc, t))

Init ==
    /\ \E cs \in CostLists : TasksAre(cs, 1, <<>>)
    /\ enrichedTasks = <<>>
    /\ pc = "loaded"
    /\ result = NoResult
    /\ rootTasks = buildTaskHierarchy(<<>>)
    /\ hierarchy = NoHierarchy
    /\ DateIdle
    /\ ListIdle
    /\ ProxyIdle
    /\ PageIdle

\* the enrichment written onto the task objects of the input list instead of
\* onto copies of them
EnrichInPlace ==
    /\ pc = "loaded"
    /\ enrichedTasks' = enrichTasksWithDependencies(tasks)
    /\ tasks' = [i \in 1..Len(tasks) |->
                    enrichedTasks'[MapIndex(enrichedTasks', tasks[i].id)]]
    /\ rootTasks' = buildTaskHierarchy(enrichedTasks')
    /\ pc' = "enriched"
    /\ UNCHANGED <<result, hierarchy>>
    /\ UNCHANGED dateVars
    /\ UNCHANGED listVars
    /\ UNCHANGED proxyVars
    /\ UNCHANGED pageVars

\* ProjectTasks.loadTasks: enriched = enrichTasksWithDependencies(data);
\* setEnrichedTasks(enriched); the render that follows computes rootTasks
Enrich ==
    /\ pc = "loaded"
    /\ enrichedTasks' = enrichTasksWithDependencies(tasks)
    /\ rootTasks' = buildTaskHierarchy(enrichedTasks')
    /\ pc' = "enriched"
    /\ UNCHANGED <<tasks, result, hierarchy>>
    /\ UNCHANGED dateVars
    /\ UNCHANGED listVars
    /\ UNCHANGED proxyVars
    /\ UNCHANGED pageVars

\* a call findPrerequisitePath(x, enrichedTasks)
FindPrerequisitePath(x) ==
    /\ pc = "enriched"
    /\ result' = [op |-> "findPrerequisitePath", taskId |-> x,
                  run |-> findPrerequisitePath(x, enrichedTasks)]
    /\ UNCHANGED <<tasks, enrichedTasks, pc, rootTasks, hierarchy>>
    /\ UNCHANGED dateVars
    /\ UNCHANGED listVars
    /\ UNCHANGED proxyVars
    /\ UNCHANGED pageVars

\* a call findDependentTasks(x, enrichedTasks)
FindDependentTasks(x) ==
    /\ pc = "enriched"
    /\ result' = [op |-> "findDependentTasks", taskId |-> x,
                  run |-> findDependentTasks(x, enrichedTasks)]
    /\ UNCHANGED <<tasks, enrichedTasks, pc, rootTasks, hierarchy>>
    /\ UNCHANGED dateVars
    /\ UNCHANGED listVars
    /\ UNCHANGED proxyVars
    /\ UNCHANGED pageVars

Next ==
    \/ Enrich
    \/ \E x \in Ids : FindPrerequisitePath(x)
    \/ \E x \in Ids : FindDependentTasks(x)

Spec == Init /\ [][Next]_vars

\* a render of HierarchyView with rootTasks: the two counts of its header
HierarchyView ==
    /\ pc = "enriched"
    /\ hierarchy' = LET total == countTasks(enrichedTasks, rootTasks, 1) IN
                    [op |-> "HierarchyView", rootCount |-> Len(rootTasks),
                     totalTasks |-> total.count, threw |-> total.threw]
    /\ UNCHANGED <<tasks, enrichedTasks, pc, result, rootTasks>>
    /\ UNCHANGED dateVars
    /\ UNCHANGED listVars
    /\ UNCHANGED proxyVars
    /\ UNCHANGED pageVars

HierarchyNext ==
    \/ Enrich
    \/ HierarchyView

\* the page loads a task list and shows it in the hierarchy view
HierarchySpec == Init /\ [][HierarchyNext]_vars

TypeOK ==
    /\ pc \in {"loaded", "enriched", "idle"}
    /\ result.op \in {"none", "findPrerequisitePath", "findDependentTasks"}

\* ------------------------------------------------------------ all utilities together
\* Calls of the graph utilities and of the date utilities in one behaviour:
\* either a task list shorter than MaxTasks is enriched and walked, with the
\* date utilities called on the empty list, or the date utilities are called
\* on a dated list.
FrameInit ==
    \/ Init /\ Len(tasks) < MaxTasks
    \/ DateInit

FrameNext ==
    \/ Next
    \/ DateNext

FrameSpec == FrameInit /\ [][FrameNext]_vars

\* ------------------------------------------------------------ graph notions
\* (used only to state properties; computed as fixpoints, not by traversal)
IdsOf(E) == {E[i].id : i \in 1..Len(E)}

\* ids one upstream step from id: its resolved prerequisites, and its parent
\* when the parent is in the list
UpSucc(E, id) ==
    LET i == MapIndex(E, id) IN
    IF i = 0 THEN {}
    ELSE Range(E[i].prerequisiteTasks) \cup ({E[i].parentTaskId} \cap IdsOf(E))

\* ids one downstream step from id: its dependents and its children
DownSucc(E, id) ==
    LET i == MapIndex(E, id) IN
    IF i = 0 THEN {}
    ELSE Range(E[i].dependentTasks) \cup Range(E[i].childTasks)

RECURSIVE UpClosure(_, _)
UpClosure(E, S) ==
    LET T == S \cup UNION {UpSucc(E, s) : s \in S} IN
    IF T = S THEN S ELSE UpClosure(E, T)

RECURSIVE DownClosure(_, _)
DownClosure(E, S) ==
    LET T == S \cup UNION {DownSucc(E, s) : s \in S} IN
    IF T = S THEN S ELSE DownClosure(E, T)

\* reachable from x by zero or more upstream edges (empty when x is no task)
UpReach(E, x) == UpClosure(E, {x} \cap IdsOf(E))
\* reachable from x by one or more upstream edges
UpReachProper(E, x) == UpClosure(E, UpSucc(E, x))
\* reachable from x by one or more downstream edges
DownReachProper(E, x) == DownClosure(E, DownSucc(E, x))

RECURSIVE FirstOccurrences(_, _)
\* the distinct elements of s, each once, in order of first occurrence
FirstOccurrences(s, i) ==
    IF i > Len(s) THEN <<>>
    ELSE IF \E j \in 1..(i - 1) : s[j] = s[i]
         THEN FirstOccurrences(s, i + 1)
         ELSE <<s[i]>> \o FirstOccurrences(s, i + 1)

IdList(ts) == [i \in 1..Len(ts) |-> ts[i].id]

RECURSIVE EdgeTotal(_, _)
\* number of relation entries held by the tasks E[i..], plus one per task
EdgeTotal(E, i) ==
    IF i > Len(E) THEN 0
    ELSE Len(E[i].prerequisiteTasks) + Len(E[i].dependentTasks)
         + Len(E[i].childTasks) + 1 + EdgeTotal(E, i + 1)

IsPrereqResult == result.op = "findPrerequisitePath"
IsDependentResult == result.op = "findDependentTasks"

\* ------------------------------------------------------------ claims

\* C1: the sequence returned by findDependentTasks(x, enrich(tasks)) never
\* contains the start task x itself, cycles through x included.
C1_StartNeverReturned ==
    IsDependentResult => result.taskId \notin Range(result.run.out)

\* C2: the sequence returned by findDependentTasks contains no task id more
\* than once (diamonds, dependent-and-child of one task, cycles).
C2_DependentsHaveNoDuplicates ==
    IsDependentResult => NoDuplicates(result.run.out)

\* C3: after enrichment, for every pair of enriched tasks A and B, B occurs
\* in A's dependentTasks exactly as often as A occurs in B's
\* prerequisiteTasks.
C3_RelationsSymmetric ==
    pc = "enriched" =>
        \A a, b \in 1..Len(enrichedTasks) :
            Count(enrichedTasks[a].dependentTasks, enrichedTasks[b].id)
              = Count(enrichedTasks[b].prerequisiteTasks, enrichedTasks[a].id)

\* a list with a task that names itself twice in dependsOn next to a
\* dangling id has been enriched
C3_Witness ==
    /\ pc = "enriched"
    /\ \E a \in 1..Len(enrichedTasks) :
          /\ Count(enrichedTasks[a].prerequisiteTasks, enrichedTasks[a].id) = 2
          /\ \E d \in Range(enrichedTasks[a].dependsOn) : d \notin IdsOf(enrichedTasks)

\* C4: both traversals terminate: the call stack is never exhausted, no task
\* id has more than one expanding call, and the number of calls of traverse
\* is bounded by the size of the enriched list.
C4_TraversalsTerminate ==
    result.op # "none" =>
        /\ ~result.run.threw
        /\ NoDuplicates(result.run.expanded)
        /\ result.run.calls <= 1 + EdgeTotal(enrichedTasks, 1)

\* findPrerequisitePath has run from a task on a cycle that mixes a
\* dependsOn edge and a parentTaskId edge, in a list that also has a
\* self-loop
C4_Witness ==
    /\ IsPrereqResult
    /\ result.taskId \in UpReachProper(enrichedTasks, result.taskId)
    /\ \E i, j \in 1..Len(enrichedTasks) :
          /\ i # j
          /\ enrichedTasks[i].id \in Range(enrichedTasks[j].prerequisiteTasks)
          /\ enrichedTasks[i].parentTaskId = enrichedTasks[j].id
    /\ \E i \in 1..Len(enrichedTasks) :
          enrichedTasks[i].id \in Range(enrichedTasks[i].prerequisiteTasks)

\* C5: for every task id x present in the enriched list,
\* findPrerequisitePath(x, list) is non-empty and starts with x.
C5_PathStartsWithStart ==
    (IsPrereqResult /\ result.taskId \in IdsOf(enrichedTasks)) =>
        /\ Len(result.run.out) >= 1
        /\ result.run.out[1] = result.taskId

\* a path of three tasks has been returned for a present start id
C5_Witness ==
    /\ IsPrereqResult
    /\ result.taskId \in IdsOf(enrichedTasks)
    /\ Len(result.run.out) = 3

\* C6: each task id appears at most once in the sequence returned by
\* findPrerequisitePath.
C6_PathHasNoDuplicates ==
    IsPrereqResult => NoDuplicates(result.run.out)

\* the walk has gone through a cycle and through a task whose parent is
\* also one of its prerequisites
C6_Witness ==
    /\ IsPrereqResult
    /\ result.taskId \in UpReachProper(enrichedTasks, result.taskId)
    /\ \E i \in 1..Len(enrichedTasks) :
          /\ enrichedTasks[i].id \in Range(result.run.out)
          /\ enrichedTasks[i].parentTaskId \in Range(enrichedTasks[i].prerequisiteTasks)
          /\ enrichedTasks[i].parentTaskId # enrichedTasks[i].id

\* C7: the set of tasks returned by findPrerequisitePath(x, enrich(tasks)) is
\* exactly the set reachable from x by zero or more prerequisite or parent
\* edges.
C7_PathIsUpstreamClosure ==
    IsPrereqResult =>
        Range(result.run.out) = UpReach(enrichedTasks, result.taskId)

\* a walk that reached a task only through a parent edge and left another
\* task of the list out
C7_Witness ==
    /\ IsPrereqResult
    /\ Len(result.run.out) >= 2
    /\ \E i \in 1..Len(enrichedTasks) :
          /\ enrichedTasks[i].id = result.taskId
          /\ enrichedTasks[i].parentTaskId \in IdsOf(enrichedTasks)
          /\ enrichedTasks[i].parentTaskId # result.taskId
          /\ enrichedTasks[i].prerequisiteTasks = <<>>
    /\ IdsOf(enrichedTasks) \ Range(result.run.out) # {}

\* C8: every task other than x that is reachable from x by one or more
\* dependent or child edges is in findDependentTasks(x, enrich(tasks)), and
\* every task in the result is reachable from x by one or more such edges.
C8_DependentsAreDownstreamClosure ==
    IsDependentResult =>
        /\ \A y \in DownReachProper(enrichedTasks, result.taskId) \ {result.taskId} :
              y \in Range(result.run.out)
        /\ Range(result.run.out) \subseteq DownReachProper(enrichedTasks, result.taskId)

\* a walk that reached a grandchild-level task through a child edge and left
\* another task of the list out
C8_Witness ==
    /\ IsDependentResult
    /\ \E i \in 1..Len(enrichedTasks) :
          /\ enrichedTasks[i].id = result.taskId
          /\ enrichedTasks[i].childTasks # <<>>
          /\ enrichedTasks[i].dependentTasks = <<>>
          /\ DownSucc(enrichedTasks, result.taskId)
               # DownReachProper(enrichedTasks, result.taskId)
    /\ IdsOf(enrichedTasks) \ (Range(result.run.out) \cup {result.taskId}) = {}
    /\ result.taskId \notin Range(result.run.out)

\* C9: for a task id that is not in the enriched list both traversals return
\* the empty sequence without raising; findDependentTasks also returns the
\* empty sequence for a task with no dependents and no children.
C9_UnknownIdYieldsEmpty ==
    /\ (result.op # "none" /\ result.taskId \notin IdsOf(enrichedTasks)) =>
          (result.run.out = <<>> /\ ~result.run.threw)
    /\ (IsDependentResult /\ DownSucc(enrichedTasks, result.taskId) = {}) =>
          (result.run.out = <<>> /\ ~result.run.threw)

\* findPrerequisitePath has been called with an id absent from a non-empty
\* list in which some task refers to that id
C9_Witness ==
    /\ IsPrereqResult
    /\ result.taskId \notin IdsOf(enrichedTasks)
    /\ \E i \in 1..Len(enrichedTasks) :
          result.taskId \in Range(enrichedTasks[i].dependsOn)

\* C10: the ids of the list returned by enrichTasksWithDependencies are the
\* distinct ids of the input, each once, in order of first occurrence.
C10_OneEntryPerDistinctId ==
    pc = "enriched" =>
        IdList(enrichedTasks) = FirstOccurrences(IdList(tasks), 1)

\* an input whose first id comes back after another id has been enriched
C10_Witness ==
    /\ pc = "enriched"
    /\ Len(tasks) = 3
    /\ tasks[1].id = tasks[3].id
    /\ tasks[2].id # tasks[1].id
    /\ tasks[2].id < tasks[1].id

\* ------------------------------------------------------------ claims on enrichment
InputIds == {tasks[j].id : j \in 1..Len(tasks)}

RECURSIVE ResolvedDependsOn(_, _, _)
\* the dependsOn entries, in order, of the input tasks ts[j..] with id k that
\* name a task of the input
ResolvedDependsOn(ts, k, j) ==
    IF j > Len(ts) THEN <<>>
    ELSE (IF ts[j].id = k
          THEN SelectSeq(ts[j].dependsOn, LAMBDA d : d \in InputIds)
          ELSE <<>>) \o ResolvedDependsOn(ts, k, j + 1)

RECURSIVE ChildEntries(_, _, _)
\* number of entries k in the childTasks lists of E[i..]
ChildEntries(E, k, i) ==
    IF i > Len(E) THEN 0
    ELSE Count(E[i].childTasks, k) + ChildEntries(E, k, i + 1)

\* the ids, in input order, of the input tasks whose parentTaskId is pid
ChildIdsInInput(ts, pid) ==
    LET kept == SelectSeq(ts, LAMBDA t : t.parentTaskId = pid)
    IN  [k \in 1..Len(kept) |-> kept[k].id]

\* C11: a dependsOn id or parentTaskId that names no task of the input gives
\* no relation entry: prerequisiteTasks is exactly the resolving dependsOn
\* entries in dependsOn order, and a task is added to a childTasks list only
\* for a parent that is in the input.
C11_DanglingReferencesDropped ==
    pc = "enriched" =>
        /\ \A i \in 1..Len(enrichedTasks) :
              /\ enrichedTasks[i].prerequisiteTasks
                   = ResolvedDependsOn(tasks, enrichedTasks[i].id, 1)
              /\ Range(enrichedTasks[i].dependentTasks) \subseteq InputIds
              /\ Range(enrichedTasks[i].childTasks) \subseteq InputIds
        /\ \A k \in Ids :
              ChildEntries(enrichedTasks, k, 1)
                = Cardinality({j \in 1..Len(tasks) :
                                  tasks[j].id = k /\ tasks[j].parentTaskId \in InputIds})

\* a task with a dangling parent whose dependsOn mixes a dangling and a
\* resolving id has been enriched
C11_Witness ==
    /\ pc = "enriched"
    /\ \E i \in 1..Len(enrichedTasks) :
          /\ enrichedTasks[i].parentTaskId # Null
          /\ enrichedTasks[i].parentTaskId \notin InputIds
          /\ Len(enrichedTasks[i].dependsOn) = 2
          /\ enrichedTasks[i].dependsOn[1] \notin InputIds
          /\ Len(enrichedTasks[i].prerequisiteTasks) = 1

\* C12: with unique ids, P.childTasks is the sequence, in input order, of the
\* tasks whose parentTaskId is P.id, and no task occurs in more than one
\* childTasks list or twice in one.
C12_ChildTasksFromParentId ==
    (pc = "enriched" /\ NoDuplicates(IdList(tasks))) =>
        /\ \A p \in 1..Len(enrichedTasks) :
              enrichedTasks[p].childTasks = ChildIdsInInput(tasks, enrichedTasks[p].id)
        /\ \A k \in Ids : ChildEntries(enrichedTasks, k, 1) <= 1

\* a parent has got two children whose ids descend in input order
C12_Witness ==
    /\ pc = "enriched"
    /\ NoDuplicates(IdList(tasks))
    /\ \E p \in 1..Len(enrichedTasks) :
          /\ Len(enrichedTasks[p].childTasks) = 2
          /\ enrichedTasks[p].childTasks[1] > enrichedTasks[p].childTasks[2]

\* C13: buildTaskHierarchy(enriched) returns exactly the tasks whose
\* parentTaskId is null, in the order of the list, whether or not a non-null
\* parentTaskId resolves.
C13_RootsAreNullParents ==
    pc = "enriched" =>
        /\ Range(rootTasks)
             = {enrichedTasks[i].id : i \in {j \in 1..Len(enrichedTasks) :
                                               enrichedTasks[j].parentTaskId = Null}}
        /\ NoDuplicates(rootTasks)
        /\ \A a, b \in 1..Len(rootTasks) :
              a < b => MapIndex(enrichedTasks, rootTasks[a])
                         < MapIndex(enrichedTasks, rootTasks[b])

\* the list holds a root followed by a task whose parent is not in the list:
\* the root alone is returned
C13_Witness ==
    /\ pc = "enriched"
    /\ Len(enrichedTasks) = 2
    /\ enrichedTasks[1].parentTaskId = Null
    /\ enrichedTasks[2].parentTaskId # Null
    /\ enrichedTasks[2].parentTaskId \notin InputIds
    /\ rootTasks = <<enrichedTasks[1].id>>

\* ------------------------------------------------------------ claims on project metrics
\* the day of the year 2024 on which each date string of the model falls
\* (January has 31 days, February 2024 has 29)
CalendarDay(d) ==
    CASE d = <<2024, 2, 28>> -> 59
      [] d = <<2024, 3, 1>>  -> 61
      [] d = <<2024, 3, 5>>  -> 65
      [] d = <<2024, 3, 10>> -> 70
      [] d = <<2024, 3, 15>> -> 75
      [] d = <<2024, 3, 20>> -> 80

StartDateSet == {dateTasks[i].startDate : i \in 1..Len(dateTasks)} \ {NoDate}
DueDateSet == {dateTasks[i].dueDate : i \in 1..Len(dateTasks)} \ {NoDate}

IsMetricsCalc == calc.op = "computeProjectMetrics"

\* C15: computeProjectMetrics(project, []) returns the project's own fields
\* plus taskCount 0 and null earliestStartDate, latestEndDate, durationDays.
C15_EmptyListGivesZeroMetrics ==
    (IsMetricsCalc /\ dateTasks = <<>>) =>
        calc.value = [id |-> calc.project.id, name |-> calc.project.name,
                      taskCount |-> 0, earliestStartDate |-> NoDate,
                      latestEndDate |-> NoDate, durationDays |-> NoNumber]

\* the metrics of project beta have been computed from an empty list
C15_Witness ==
    /\ IsMetricsCalc
    /\ dateTasks = <<>>
    /\ calc.project = [id |-> 2, name |-> "beta"]

\* C16: for a non-empty list, taskCount is the list length, earliestStartDate
\* the earliest non-null startDate (null if there is none), latestEndDate the
\* latest non-null dueDate (null if there is none), and durationDays their
\* difference in whole days exactly when both exist, null otherwise; starts
\* 03-10 and 03-05 with dues 03-20 and 03-15 give 03-05, 03-20 and 15.
C16_MetricsOfNonEmptyList ==
    (IsMetricsCalc /\ dateTasks # <<>>) =>
        LET v == calc.value IN
        /\ v.taskCount = Len(dateTasks)
        /\ IF StartDateSet = {} THEN v.earliestStartDate = NoDate
           ELSE /\ v.earliestStartDate \in StartDateSet
                /\ \A d \in StartDateSet :
                      CalendarDay(v.earliestStartDate) <= CalendarDay(d)
        /\ IF DueDateSet = {} THEN v.latestEndDate = NoDate
           ELSE /\ v.latestEndDate \in DueDateSet
                /\ \A d \in DueDateSet :
                      CalendarDay(v.latestEndDate) >= CalendarDay(d)
        /\ IF StartDateSet = {} \/ DueDateSet = {} THEN v.durationDays = NoNumber
           ELSE v.durationDays
                  = <<CalendarDay(v.latestEndDate) - CalendarDay(v.earliestStartDate)>>
        /\ ( /\ Len(dateTasks) = 2
             /\ dateTasks[1].startDate = <<2024, 3, 10>>
             /\ dateTasks[2].startDate = <<2024, 3, 5>>
             /\ dateTasks[1].dueDate = <<2024, 3, 20>>
             /\ dateTasks[2].dueDate = <<2024, 3, 15>> )
           => ( /\ v.earliestStartDate = <<2024, 3, 5>>
                /\ v.latestEndDate = <<2024, 3, 20>>
                /\ v.durationDays = <<15>> )

\* the metrics of the example list have been computed
C16_Witness ==
    /\ IsMetricsCalc
    /\ Len(dateTasks) = 2
    /\ dateTasks[1].startDate = <<2024, 3, 10>>
    /\ dateTasks[2].startDate = <<2024, 3, 5>>
    /\ dateTasks[1].dueDate = <<2024, 3, 20>>
    /\ dateTasks[2].dueDate = <<2024, 3, 15>>
    /\ calc.value.durationDays = <<15>>

\* ------------------------------------------------------------ claims on the date range filter
\* the instant at which the day of date string d begins
DayStart(d) == (19722 + CalendarDay(d)) * TicksPerDay

IsFilterCalc == calc.op = "filterTasksByDateRange"

\* the task has its start, or its due date, inside [lo, hi], or has both
\* dates with start <= lo and due >= hi
MeetsRange(task, lo, hi) ==
    \/ task.startDate # NoDate /\ lo <= DayStart(task.startDate)
                               /\ DayStart(task.startDate) <= hi
    \/ task.dueDate # NoDate /\ lo <= DayStart(task.dueDate)
                             /\ DayStart(task.dueDate) <= hi
    \/ /\ task.startDate # NoDate
       /\ task.dueDate # NoDate
       /\ DayStart(task.startDate) <= lo
       /\ DayStart(task.dueDate) >= hi

\* C17: filterTasksByDateRange returns, in input order, exactly the tasks
\* that have a date and whose start is in the range, or whose due date is in
\* the range, or that have both dates and span the range; a task with
\* neither date is never returned, and a task that starts before and is due
\* after the range is.
C17_FilterKeepsOverlappingTasks ==
    IsFilterCalc =>
        /\ Range(calc.value)
             = {dateTasks[i].id : i \in {j \in 1..Len(dateTasks) :
                   /\ dateTasks[j].startDate # NoDate \/ dateTasks[j].dueDate # NoDate
                   /\ MeetsRange(dateTasks[j], calc.startDate, calc.endDate)}}
        /\ \A a, b \in 1..Len(calc.value) : a < b => calc.value[a] < calc.value[b]
        /\ \A i \in 1..Len(dateTasks) :
              /\ (dateTasks[i].startDate = NoDate /\ dateTasks[i].dueDate = NoDate)
                    => dateTasks[i].id \notin Range(calc.value)
              /\ ( /\ dateTasks[i].startDate # NoDate
                   /\ dateTasks[i].dueDate # NoDate
                   /\ DayStart(dateTasks[i].startDate) < calc.startDate
                   /\ DayStart(dateTasks[i].dueDate) > calc.endDate )
                    => dateTasks[i].id \in Range(calc.value)

\* a task that starts before and is due after the range has been returned
\* while a task without dates has been left out
C17_Witness ==
    /\ IsFilterCalc
    /\ calc.startDate < calc.endDate
    /\ Len(dateTasks) = 2
    /\ dateTasks[1].startDate = NoDate
    /\ dateTasks[1].dueDate = NoDate
    /\ dateTasks[2].startDate # NoDate
    /\ dateTasks[2].dueDate # NoDate
    /\ DayStart(dateTasks[2].startDate) < calc.startDate
    /\ DayStart(dateTasks[2].dueDate) > calc.endDate
    /\ calc.value = <<2>>

\* ------------------------------------------------------------ claims on grouping
IsGroupCalc == calc.op = "groupTasksByDate"

\* the positions of the buckets that hold task id
BucketsOf(grouped, id) == {b \in 1..Len(grouped) : id \in Range(grouped[b].tasks)}

\* the task at position i has key as its startDate, or has no startDate and
\* key as its dueDate
GroupedUnder(i, key) ==
    \/ dateTasks[i].startDate = key
    \/ dateTasks[i].startDate = NoDate /\ dateTasks[i].dueDate = key

\* the position in the input of the first task that is grouped under key
FirstUnder(key) ==
    CHOOSE i \in 1..Len(dateTasks) :
        GroupedUnder(i, key) /\ \A j \in 1..(i - 1) : ~GroupedUnder(j, key)

\* C18: groupTasksByDate puts a task with a startDate under its startDate, a
\* task with only a dueDate under its dueDate, omits tasks with neither;
\* every task with a date is in exactly one bucket, once; the keys are in
\* order of first appearance and each bucket keeps the input order.
C18_GroupedByStartElseDue ==
    IsGroupCalc =>
        LET g == calc.value IN
        /\ \A i \in 1..Len(dateTasks) :
              LET t == dateTasks[i] IN
              /\ t.startDate # NoDate =>
                    \E b \in 1..Len(g) : g[b].key = t.startDate /\ BucketsOf(g, t.id) = {b}
              /\ (t.startDate = NoDate /\ t.dueDate # NoDate) =>
                    \E b \in 1..Len(g) : g[b].key = t.dueDate /\ BucketsOf(g, t.id) = {b}
              /\ (t.startDate = NoDate /\ t.dueDate = NoDate) => BucketsOf(g, t.id) = {}
        /\ \A b \in 1..Len(g) :
              /\ g[b].tasks # <<>>
              /\ \A a, c \in 1..Len(g[b].tasks) : a < c => g[b].tasks[a] < g[b].tasks[c]
        /\ \A b, c \in 1..Len(g) :
              b < c => /\ g[b].key # g[c].key
                       /\ FirstUnder(g[b].key) < FirstUnder(g[c].key)

\* two buckets whose keys come in input order but not in date order, the
\* second one keyed by a due date
C18_Witness ==
    /\ IsGroupCalc
    /\ Len(calc.value) = 2
    /\ dateTasks[1].startDate = <<2024, 3, 15>>
    /\ dateTasks[2].startDate = NoDate
    /\ dateTasks[2].dueDate = <<2024, 3, 5>>
    /\ calc.value[2].key = <<2024, 3, 5>>

\* ------------------------------------------------------------ claims on the Gantt layout
IsGanttCalc == calc.op = "GanttChart"

\* the positions in dateTasks of the tasks with both dates
Charted == {i \in 1..Len(dateTasks) :
               dateTasks[i].startDate # NoDate /\ dateTasks[i].dueDate # NoDate}

\* C19: the Gantt layout positions exactly the tasks that have both dates;
\* when none does it is the empty layout (null start and end, totalDays 0,
\* no positioned task, no date marker) and no division by the span is
\* evaluated.
C19_ChartsTasksWithBothDates ==
    IsGanttCalc =>
        LET positioned == calc.layout.tasksWithPositions IN
        /\ {positioned[k].task : k \in 1..Len(positioned)}
             = {dateTasks[i].id : i \in Charted}
        /\ \A a, b \in 1..Len(positioned) : a < b => positioned[a].task < positioned[b].task
        /\ Len(calc.bars) = Len(positioned)
        /\ Charted = {} =>
              /\ calc.layout.startDate = NoNumber
              /\ calc.layout.endDate = NoNumber
              /\ calc.layout.totalDays = 0
              /\ positioned = <<>>
              /\ calc.dateMarkers = <<>>
              /\ calc.layout.divisions = 0

\* the chart has been laid out for two tasks that have one date each
C19_Witness ==
    /\ IsGanttCalc
    /\ Len(dateTasks) = 2
    /\ dateTasks[1].startDate # NoDate
    /\ dateTasks[1].dueDate = NoDate
    /\ dateTasks[2].startDate = NoDate
    /\ dateTasks[2].dueDate # NoDate
    /\ calc.bars = <<>>

\* earliest start minus 2 days and latest due plus 2 days, as days of 2024
ChartMinDay ==
    (CHOOSE m \in {CalendarDay(dateTasks[i].startDate) : i \in Charted} :
        \A i \in Charted : m <= CalendarDay(dateTasks[i].startDate)) - 2
ChartMaxDay ==
    (CHOOSE m \in {CalendarDay(dateTasks[i].dueDate) : i \in Charted} :
        \A i \in Charted : m >= CalendarDay(dateTasks[i].dueDate)) + 2

\* v is the number a / b * 100
IsPercentOf(v, a, b) ==
    IF b = 0
    THEN v.kind = (IF a > 0 THEN "+Infinity" ELSE IF a < 0 THEN "-Infinity" ELSE "NaN")
    ELSE v.kind = "finite" /\ v.den > 0 /\ v.num * b = 100 * a * v.den

\* v is the number max(a / b * 100, 1)
IsFlooredPercentOf(v, a, b) ==
    IF b = 0
    THEN IF a < 0 THEN v = [kind |-> "finite", num |-> 1, den |-> 1]
         ELSE IsPercentOf(v, a, b)
    ELSE IF (b > 0 /\ 100 * a >= b) \/ (b < 0 /\ 100 * a <= b)
         THEN IsPercentOf(v, a, b)
         ELSE v = [kind |-> "finite", num |-> 1, den |-> 1]

\* C20: with minDate the earliest start minus 2 days and maxDate the latest
\* due plus 2 days, every positioned task has
\* leftPercent = (start - minDate) / (maxDate - minDate) * 100 and rendered
\* width max((due - start) / (maxDate - minDate) * 100, 1); tasks with the
\* same dates get the same left and width, and a zero-duration task gets
\* width 1.
C20_BarPositions ==
    (IsGanttCalc /\ Charted # {}) =>
        \A k \in 1..Len(calc.bars) :
            LET bar == calc.bars[k]
                t == dateTasks[bar.task]
                startDay == CalendarDay(t.startDate)
                dueDay == CalendarDay(t.dueDate)
            IN  /\ IsPercentOf(bar.left, startDay - ChartMinDay, ChartMaxDay - ChartMinDay)
                /\ IsFlooredPercentOf(bar.width, dueDay - startDay,
                                      ChartMaxDay - ChartMinDay)
                /\ t.startDate = t.dueDate =>
                      bar.width = [kind |-> "finite", num |-> 1, den |-> 1]
                /\ \A j \in 1..Len(calc.bars) :
                      LET u == dateTasks[calc.bars[j].task] IN
                      (u.startDate = t.startDate /\ u.dueDate = t.dueDate) =>
                          (calc.bars[j].left = bar.left /\ calc.bars[j].width = bar.width)

\* a zero-duration task has been drawn next to a task of ten days
C20_Witness ==
    /\ IsGanttCalc
    /\ Len(calc.bars) = 2
    /\ dateTasks[1].startDate = <<2024, 3, 5>>
    /\ dateTasks[1].dueDate = <<2024, 3, 5>>
    /\ dateTasks[2].startDate = <<2024, 3, 5>>
    /\ dateTasks[2].dueDate = <<2024, 3, 15>>
    /\ calc.bars[1].left = calc.bars[2].left
    /\ calc.bars[1].width.num = 1
    /\ calc.bars[2].width.num > calc.bars[2].width.den

\* ------------------------------------------------------------ claims on the projects list
\* C14: when the project list is loaded, the task requests of the projects
\* are in flight together and finish in any order; the failure of any of them
\* neither ends the batch nor sets the error state: the final projects state
\* has one entry per listed project, in listing order, where a project whose
\* request failed has taskCount 0 and null earliestStartDate, latestEndDate
\* and durationDays, and every other project has the metrics of its own
\* fetched tasks.
C14_FailedFetchDegradesToZeroMetrics ==
    load.listed =>
        /\ error = NoError
        /\ (\E k \in 1..Len(load.projectsData) : load.outcome[k] = "pending")
              => (load.pc = "getProjectTasks" /\ loading /\ projects = <<>>)
        /\ load.pc = "done" =>
              /\ Len(projects) = Len(load.projectsData)
              /\ \A k \in 1..Len(projects) :
                    /\ projects[k].id = load.projectsData[k].id
                    /\ projects[k].name = load.projectsData[k].name
                    /\ IF load.outcome[k] = "rejected"
                       THEN /\ projects[k].taskCount = 0
                            /\ projects[k].earliestStartDate = NoDate
                            /\ projects[k].latestEndDate = NoDate
                            /\ projects[k].durationDays = NoNumber
                       ELSE projects[k] =
                                computeProjectMetrics(load.projectsData[k], load.fetched[k])

\* two projects were listed; the request of the second was answered first,
\* with one task, then the request of the first failed
C14_Witness ==
    /\ load.pc = "done"
    /\ load.listed
    /\ Len(load.projectsData) = 2
    /\ load.completed = <<2, 1>>
    /\ load.outcome = <<"rejected", "fulfilled">>
    /\ Len(projects) = 2
    /\ projects[1].taskCount = 0
    /\ projects[2].taskCount = 1
    /\ projects[2].durationDays = <<10>>
    /\ ~loading

\* ------------------------------------------------------------ claims on purity
\* C21: enrichTasksWithDependencies, findPrerequisitePath, findDependentTasks,
\* computeProjectMetrics, filterTasksByDateRange, groupTasksByDate and
\* buildTaskHierarchy leave their input lists and the task records in them as
\* they were: no call changes the fetched task list or the dated task list,
\* and once the enriched list is built no traversal and no hierarchy
\* computation changes it or the relation lists in it.
C21_InputsUnchanged ==
    [][/\ tasks' = tasks
       /\ dateTasks' = dateTasks
       /\ pc = "enriched" => enrichedTasks' = enrichedTasks]_vars

\* a list with a dependency has been enriched and walked downstream, and a
\* date utility has been called as well
C21_Witness ==
    /\ pc = "enriched"
    /\ Len(tasks) = 2
    /\ result.op = "findDependentTasks"
    /\ Len(result.run.out) > 0
    /\ \E i \in 1..Len(enrichedTasks) : Len(enrichedTasks[i].dependentTasks) > 0
    /\ calc.op = "groupTasksByDate"

\* ------------------------------------------------------------ claims on the order of the path
\* the tasks task `id` leads to, in the order in which they are to be walked:
\* its prerequisites in list order, then its parent
WalkList(E, id) ==
    LET t == E[CHOOSE i \in 1..Len(E) : E[i].id = id] IN
    t.prerequisiteTasks \o (IF t.parentTaskId = Null THEN <<>> ELSE <<t.parentTaskId>>)

RECURSIVE PreOrder(_, _, _), PreOrderEach(_, _, _)
\* the sub-walk of `id` given the tasks seen so far: nothing when id was seen
\* or is no task of E, else id followed by the sub-walks of WalkList(E, id)
PreOrder(E, id, seen) ==
    IF id \in seen \/ id \notin {E[i].id : i \in 1..Len(E)} THEN <<>>
    ELSE <<id>> \o PreOrderEach(E, WalkList(E, id), seen \cup {id})

\* the sub-walks of the tasks of list, one after the other, each with what
\* the ones before it have seen
PreOrderEach(E, list, seen) ==
    IF list = <<>> THEN <<>>
    ELSE LET w == PreOrder(E, Head(list), seen) IN
         w \o PreOrderEach(E, Tail(list), seen \cup {w[k] : k \in 1..Len(w)})

\* C22: the sequence returned by findPrerequisitePath is the depth-first
\* pre-order of first visits: the start task, then for each prerequisite in
\* prerequisiteTasks order its whole not-yet-visited sub-walk, and only after
\* all prerequisites the sub-walk of the parent, recursively.
C22_PathIsPreOrder ==
    (pc = "enriched" /\ result.op = "findPrerequisitePath" /\ ~result.run.threw) =>
        result.run.out = PreOrder(enrichedTasks, result.taskId, {})

\* the start task has one prerequisite and a different parent: the path is
\* the start task, the prerequisite, then the parent
C22_Witness ==
    /\ pc = "enriched"
    /\ result.op = "findPrerequisitePath"
    /\ Len(enrichedTasks) = 3
    /\ LET t == enrichedTasks[MapIndex(enrichedTasks, result.taskId)] IN
          /\ t.parentTaskId # Null
          /\ Len(t.prerequisiteTasks) = 1
          /\ t.prerequisiteTasks[1] # t.parentTaskId
          /\ result.run.out = <<t.id, t.prerequisiteTasks[1], t.parentTaskId>>

\* ------------------------------------------------------------ claims on the proxy
\* C23: every response the proxy handler sends carries the
\* Access-Control-Allow-Origin header, and every OPTIONS request is answered
\* with status 200, whatever the method and whatever the upstream fetch does,
\* also when it throws.
C23_EveryResponseAllowsOrigin ==
    res.sent =>
        /\ "Access-Control-Allow-Origin" \in res.headers
        /\ req.method = "OPTIONS" => res.statusCode = 200

\* ------------------------------------------------------------ claims on the ProjectTasks page
\* every load of the page has completed
AllLoadsCompleted == \A k \in 1..Len(loads) : loads[k].pc # "await"

\* C24: if the route id changes from project P1 to project P2 while the
\* request for P1 is still in flight, then once both requests have completed
\* the tasks and enrichedTasks states hold P2's tasks, whichever request
\* completes last.
C24_LatestRouteWins ==
    \A k \in 1..Len(loads) :
        (/\ k > 1
         /\ k = Len(loads)
         /\ loads[k].racing
         /\ loads[k - 1].pc = "fulfilled"
         /\ loads[k].pc = "fulfilled"
         /\ AllLoadsCompleted)
        => /\ tasks = ServerTasks(loads[k].id)
           /\ {enrichedTasks[i].id : i \in 1..Len(enrichedTasks)}
                = {tasks[i].id : i \in 1..Len(tasks)}
           /\ page.id = loads[k].id

\* C25: once the most recent load has completed successfully, the page shows
\* that load's tasks and no error: a failed load for an earlier route id does
\* not leave the error state set after a later load succeeds.  Stated for
\* loads that follow one another without overlapping, where the order of
\* completion plays no part.
C25_LatestSuccessClearsError ==
    (/\ Len(loads) > 0
     /\ \A k \in 1..Len(loads) : ~loads[k].racing
     /\ loads[Len(loads)].pc = "fulfilled")
    => /\ page.error = <<>>
       /\ ~page.loading
       /\ tasks = ServerTasks(loads[Len(loads)].id)

\* ------------------------------------------------------------ claims on the hierarchy view
RECURSIVE ChildClosure(_, _)
\* the ids in S and everything below them along childTasks
ChildClosure(E, S) ==
    LET T == S \cup UNION {{E[i].childTasks[k] : k \in 1..Len(E[i].childTasks)} :
                              i \in {j \in 1..Len(E) : E[j].id \in S}}
    IN  IF T = S THEN S ELSE ChildClosure(E, T)

\* C26: every enriched task is shown by the hierarchy view: each task is a
\* root returned by buildTaskHierarchy or is reached from a root along
\* childTasks, so the total the view counts (roots plus all descendants) is
\* the number of tasks.  Stated for the lists the data model allows, in which
\* no two tasks share an id.
C26_HierarchyShowsEveryTask ==
    (hierarchy.op = "HierarchyView" /\ NoDuplicates(IdList(tasks))) =>
        /\ ~hierarchy.threw
        /\ ChildClosure(enrichedTasks, Range(rootTasks)) = IdsOf(enrichedTasks)
        /\ hierarchy.totalTasks = Len(enrichedTasks)

\* ------------------------------------------------------------ claims on the two traversals together
\* C27: over one enriched list E = enrich(tasks) the two traversals are
\* inverse to each other: for all distinct tasks x and y of E, y is in
\* findDependentTasks(x, E) if and only if x is in findPrerequisitePath(y, E).
C27_TraversalsAreInverse ==
    (IsDependentResult /\ result.taskId \in IdsOf(enrichedTasks)) =>
        \A y \in IdsOf(enrichedTasks) \ {result.taskId} :
            (y \in Range(result.run.out))
                <=> (result.taskId \in Range(findPrerequisitePath(y, enrichedTasks).out))

\* C27 amended: the same, for task lists in which no two tasks share an id.
C27_TraversalsAreInverseForUniqueIds ==
    (/\ IsDependentResult
     /\ result.taskId \in IdsOf(enrichedTasks)
     /\ NoDuplicates(IdList(tasks))) =>
        \A y \in IdsOf(enrichedTasks) \ {result.taskId} :
            (y \in Range(result.run.out))
                <=> (result.taskId \in Range(findPrerequisitePath(y, enrichedTasks).out))

\* a walk downstream from a task of a list of three tasks with distinct ids
\* has returned one of the other two tasks and left the third out
C27_Witness ==
    /\ IsDependentResult
    /\ NoDuplicates(IdList(tasks))
    /\ Len(enrichedTasks) = 3
    /\ result.taskId \in IdsOf(enrichedTasks)
    /\ \E y, z \in IdsOf(enrichedTasks) \ {result.taskId} :
          /\ y \in Range(result.run.out)
          /\ result.taskId \in Range(findPrerequisitePath(y, enrichedTasks).out)
          /\ z \notin Range(result.run.out)
          /\ result.taskId \notin Range(findPrerequisitePath(z, enrichedTasks).out)

\* ------------------------------------------------------------ claims on the span of the chart
\* C28: whenever at least one task has both startDate and dueDate, the padded
\* span maxDate - minDate of the Gantt layout is strictly positive and
\* leftPercent and widthPercent are finite for every positioned task, for
\* every task list, also when a dueDate is earlier than its startDate.
C28_SpanIsPositive ==
    (IsGanttCalc /\ Charted # {}) =>
        /\ calc.layout.endDate[1] - calc.layout.startDate[1] > 0
        /\ \A k \in 1..Len(calc.layout.tasksWithPositions) :
              /\ calc.layout.tasksWithPositions[k].leftPercent.kind = "finite"
              /\ calc.layout.tasksWithPositions[k].widthPercent.kind = "finite"

\* ------------------------------------------------------------ claims on the timeline
IsTimelineCalc == calc.op = "TimelineView"

\* the instant at which the calendar day key begins lies in the window of
\* 14 days that starts at the instant of the render
KeyInWindow(key) ==
    /\ DayStart(key) >= calc.now
    /\ DayStart(key) <= calc.now + 14 * TicksPerDay

\* the tasks shown under the key at position b of sortedDates
ShownUnder(b) ==
    {i \in 1..Len(dateTasks) :
        \E g \in 1..Len(calc.groupedTasks) :
            /\ calc.groupedTasks[g].key = calc.sortedDates[b]
            /\ dateTasks[i].id \in Range(calc.groupedTasks[g].tasks)}

\* C29: in the timeline of the next two weeks every date key under which a
\* task is displayed lies within the window [now, now + 14 days].
C29_KeysInWindow ==
    IsTimelineCalc =>
        \A b \in 1..Len(calc.sortedDates) :
            ShownUnder(b) # {} => KeyInWindow(calc.sortedDates[b])

\* the task at position i has a dueDate within the window, or a dueDate at or
\* after its end and a startDate at or before its start
DueInOrPastWindow(i) ==
    /\ dateTasks[i].dueDate # NoDate
    /\ \/ KeyInWindow(dateTasks[i].dueDate)
       \/ /\ DayStart(dateTasks[i].dueDate) >= calc.now + 14 * TicksPerDay
          /\ DayStart(dateTasks[i].startDate) <= calc.now

\* C29 (amended): every date key under which a task is displayed is the day
\* of that task's startDate, or of its dueDate when it has no startDate, and
\* that date lies within the window [now, now + 14 days] unless the task has
\* both dates and is due within the window or spans the window.
C29_KeysInWindowOrStartOfDueTask ==
    IsTimelineCalc =>
        \A b \in 1..Len(calc.sortedDates) :
            \A i \in ShownUnder(b) :
                /\ GroupedUnder(i, calc.sortedDates[b])
                /\ \/ KeyInWindow(calc.sortedDates[b])
                   \/ /\ dateTasks[i].startDate # NoDate
                      /\ DueInOrPastWindow(i)

\* one task is shown under the day of the render, which began before the
\* render, and another under a day within the window
C29_Witness ==
    /\ IsTimelineCalc
    /\ Len(calc.sortedDates) = 2
    /\ DayStart(calc.sortedDates[1]) < calc.now
    /\ calc.now < DayStart(calc.sortedDates[1]) + TicksPerDay
    /\ KeyInWindow(calc.sortedDates[2])
    /\ calc.upcomingTasks = <<1, 2>>

\* ------------------------------------------------------------ claims on the filter as interval overlap
\* the task at position i has both dates and is not due before it starts
WellFormedInterval(i) ==
    /\ dateTasks[i].startDate # NoDate
    /\ dateTasks[i].dueDate # NoDate
    /\ DayStart(dateTasks[i].startDate) <= DayStart(dateTasks[i].dueDate)

\* the interval [startDate, dueDate] of the task at position i meets [lo, hi]
Overlaps(i, lo, hi) ==
    /\ DayStart(dateTasks[i].startDate) <= hi
    /\ DayStart(dateTasks[i].dueDate) >= lo

\* C30: for a task with both dates and startDate <= dueDate, and a range with
\* start <= end, filterTasksByDateRange returns the task if and only if the
\* interval [startDate, dueDate] overlaps the range [start, end].
C30_FilterIsIntervalOverlap ==
    (IsFilterCalc /\ calc.startDate <= calc.endDate) =>
        \A i \in 1..Len(dateTasks) :
            WellFormedInterval(i) =>
                (dateTasks[i].id \in Range(calc.value)
                    <=> Overlaps(i, calc.startDate, calc.endDate))

\* a task that starts before the range and is due within it has been
\* returned, and a task that ends before the range has been left out
C30_Witness ==
    /\ IsFilterCalc
    /\ calc.startDate < calc.endDate
    /\ Len(dateTasks) = 2
    /\ WellFormedInterval(1)
    /\ WellFormedInterval(2)
    /\ DayStart(dateTasks[1].startDate) < calc.startDate
    /\ DayStart(dateTasks[1].dueDate) > calc.startDate
    /\ DayStart(dateTasks[1].dueDate) < calc.endDate
    /\ DayStart(dateTasks[2].dueDate) < calc.startDate
    /\ calc.value = <<1>>
====
